---- MODULE Spec2Model ----
(***************************************************************************)
(* Model of the Twilio <-> OpenAI Realtime relay of the HR assistant:      *)
(* the media_stream websocket handler of src/server.py and of              *)
(* src/newServer.py, with its two relay tasks twilio_to_openai (inbound)   *)
(* and openai_to_twilio (outbound) run under asyncio.gather.               *)
(*                                                                         *)
(* The actions act on one call of media_stream; `peer` holds the locals of  *)
(* a second call, which only the two-call specification lets run.          *)
(* `variant` selects which of the two entry points serves the calls.       *)
(* Every action is one step between two awaits of the coroutine it models. *)
(***************************************************************************)
EXTENDS Integers, Sequences, FiniteSets, TLC

VARIABLES
    variant,             \* "server" (src/server.py) or "newServer" (src/newServer.py)
    apiKey,              \* OPENAI_REALTIME_API_KEY as read from the environment
    hpc,                 \* position of the media_stream coroutine
    inPc,                \* position of the twilio_to_openai task
    outPc,               \* position of the openai_to_twilio task
    stream_sid,          \* nonlocal stream_sid
    extraction_done,     \* extraction_done (newServer) / extraction_requested (server)
    conversation_turns,  \* conversation_turns of newServer's openai_to_twilio
    phoneConn,           \* the Twilio websocket: "open", "gone" (peer left), "closed"
    aiConn,              \* openai_ws: "none", "open", "remote_closed", "closed"
    aiSent,              \* every message openai_ws.send delivered, in order
    phoneSent,           \* every message websocket.send_text delivered, in order
    phoneClose,          \* the arguments of websocket.close(code, reason)
    connectTried,        \* websockets.connect has been called
    phoneRecv,           \* history: payloads of the media frames the inbound task read
    aiRecv,              \* history: audio deltas the outbound task read
    userTurns,           \* history: finalized user transcripts the outbound task handled
    trigger,             \* history: which branch sent the extraction request
    textsSeen,           \* history: response.output_text.done events handled
    lastText,            \* extracted_text of the last response.output_text.done
    lastParse,           \* history: what the output_text.done branch printed last
    candidate_data,      \* candidate_data bound by the last run of the parser
    emitted,             \* history: number of extraction outputs printed
    answered,            \* history: an extraction output was printed after the request
    peer                 \* the locals of a second call of media_stream in the same process

vars == << variant, apiKey, hpc, inPc, outPc, stream_sid, extraction_done,
           conversation_turns, phoneConn, aiConn, aiSent, phoneSent, phoneClose,
           connectTried, phoneRecv, aiRecv, userTurns, trigger, textsSeen,
           lastText, lastParse, candidate_data, emitted, answered, peer >>

Null == "None"

(***************************************************************************)
(* Bounds of the model.                                                    *)
(***************************************************************************)
MaxFrames == 2      \* media frames the phone side delivers
MaxDeltas == 2      \* audio deltas the AI side delivers
MaxTurns == 17      \* finalized user transcripts the AI side delivers
MaxTexts == 2       \* extraction texts the AI side delivers
MaxTextLen == 4     \* tokens of an extraction text in the parser specification
MaxCallTurns == 1    \* user transcripts per call in the two-call specification

(***************************************************************************)
(* Program constants.                                                      *)
(***************************************************************************)
TurnThreshold == 15
PolicyViolation == 1008

Variants == {"server", "newServer"}
ApiKeys == {Null, "", "your-openai-realtime-api-key-here", "sk-live"}
Payloads == {"pA", "pB"}
StreamSids == {"MZ1", "MZ2"}

(***************************************************************************)
(* Transcript texts.  A text is a sequence of words; a word keeps its      *)
(* letter case.  str.lower() maps each word to its lower-case form and     *)
(* `phrase in text` is containment of the phrase's words as a consecutive  *)
(* run of the text's words.                                                *)
(***************************************************************************)
Lower(w) ==
    CASE w = "Thank" -> "thank"
      [] w = "Goodbye" -> "goodbye"
      [] w = "INTERVIEW" -> "interview"
      [] OTHER -> w

LowerText(t) == [i \in 1..Len(t) |-> Lower(t[i])]

Contains(t, p) ==
    \E i \in 1..(Len(t) - Len(p) + 1) : SubSeq(t, i, i + Len(p) - 1) = p

closing_phrases(v) ==
    IF v = "server"
    THEN { <<"interview", "is", "complete">>,
           <<"interview", "is", "done">>,
           <<"thank", "you", "for", "your", "time">> }
    ELSE { <<"interview", "is", "complete">>,
           <<"thank", "you", "for", "your", "time">>,
           <<"take", "care", "and", "goodbye">>,
           <<"goodbye">>,
           <<"telephonic", "interview", "is", "complete">> }

ClosingDetected(v, text) ==
    \E p \in closing_phrases(v) : Contains(LowerText(text), p)

\* Transcripts the AI side delivers (response.get('transcript', '') of an
\* event without a transcript is the empty text).
Transcripts ==
    { << >>,
      <<"tell", "me", "about", "your", "role">>,
      <<"Thank", "you", "for", "your", "time">>,
      <<"take", "care", "and", "Goodbye">>,
      <<"the", "INTERVIEW", "is", "done">>,
      <<"the", "interview", "is", "complete">> }

(***************************************************************************)
(* Extraction texts.  A text is a sequence of tokens: the two braces, the  *)
(* comma, prose, and whole "key": value members of a JSON object.          *)
(***************************************************************************)
LB == "{"
RB == "}"
COMMA == ","
TXT == "Here you go:"
NAME == "full_name:Jane Doe"
EMAIL == "email:null"
ROLE == "role:Backend Engineer"

Members == {NAME, EMAIL, ROLE}
JsonTokens == {LB, RB, COMMA, TXT} \cup Members

PairKey(tok) ==
    CASE tok = NAME -> "full_name"
      [] tok = EMAIL -> "email"
      [] tok = ROLE -> "role"

PairVal(tok) ==
    CASE tok = NAME -> "Jane Doe"
      [] tok = EMAIL -> Null
      [] tok = ROLE -> "Backend Engineer"

CandidateKeys ==
    { "full_name", "email", "role", "last_company_name", "experience",
      "previous_salary", "expected_salary" }

Max(S) == CHOOSE x \in S : \A y \in S : y <= x
Min(S) == CHOOSE x \in S : \A y \in S : x <= y

Positions(text, tok) == {i \in 1..Len(text) : text[i] = tok}

NoMatch == <<"no match">>

\* The mutant of json_match: a non-greedy pattern, ending at the first "}".
json_match_nongreedy(text) ==
    LET opens == Positions(text, LB)
        first == IF opens = {} THEN 0 ELSE Min(opens)
        closes == {j \in Positions(text, RB) : j > first}
    IN  IF first = 0 \/ closes = {} THEN NoMatch
        ELSE SubSeq(text, first, Min(closes))

\* re.search(r'\{.*\}', text, re.DOTALL).group(): the leftmost "{" that has
\* a "}" after it, and greedily everything up to the last "}".
json_match(text) ==
    LET opens == Positions(text, LB)
        first == IF opens = {} THEN 0 ELSE Min(opens)
        closes == {j \in Positions(text, RB) : j > first}
    IN  IF first = 0 \/ closes = {} THEN NoMatch
        ELSE SubSeq(text, first, Max(closes))

\* json.loads accepts "{" member ("," member)* "}" and "{" "}".
json_valid(sub) ==
    /\ Len(sub) >= 2
    /\ sub[1] = LB
    /\ sub[Len(sub)] = RB
    /\ LET inner == SubSeq(sub, 2, Len(sub) - 1)
       IN  \/ inner = << >>
           \/ /\ Len(inner) % 2 = 1
              /\ \A i \in 1..Len(inner) :
                    IF i % 2 = 1 THEN inner[i] \in Members ELSE inner[i] = COMMA

\* The dict json.loads returns: a repeated key keeps its last value.
json_loads(sub) ==
    LET inner == SubSeq(sub, 2, Len(sub) - 1)
        at == {i \in 1..Len(inner) : i % 2 = 1}
        keys == {PairKey(inner[i]) : i \in at}
    IN  [k \in keys |-> PairVal(inner[Max({i \in at : PairKey(inner[i]) = k})])]

EmptyDict == [k \in {} |-> Null]

\* The try block of the output_text.done branch: what it prints and the
\* candidate_data it binds.
ParseExtraction(text) ==
    LET m == json_match(text)
    IN  IF m = NoMatch
        THEN [outcome |-> "no_json", data |-> EmptyDict]
        ELSE IF json_valid(m)
             THEN [outcome |-> "parsed", data |-> json_loads(m)]
             ELSE [outcome |-> "decode_error", data |-> EmptyDict]

\* Extraction texts the AI side delivers in a session.
SampleTexts ==
    { << >>,
      <<TXT>>,
      <<TXT, LB, NAME, COMMA, EMAIL, COMMA, ROLE, RB>>,
      <<LB, NAME, COMMA, RB>> }

RECURSIVE SeqsUpTo(_, _)
SeqsUpTo(S, n) ==
    IF n = 0 THEN { << >> }
    ELSE LET shorter == SeqsUpTo(S, n - 1)
         IN  shorter \cup {Append(t, x) : t \in shorter, x \in S}

\* Every extraction text of at most MaxTextLen tokens, ROLE left out.
AllTexts == SeqsUpTo(JsonTokens \ {ROLE}, MaxTextLen)

(***************************************************************************)
(* Messages.                                                               *)
(***************************************************************************)
\* The greeting line, sentence by sentence, with the name the assistant
\* gives herself.
GreetingLine(name) ==
    << "Hello, I am", name, "from Kainskep Solutions.",
       "Are you currently looking for a job or considering a job change?" >>

\* SYSTEM_INSTRUCTIONS, the same text in both files: of it, the line that
\* STEP 1 tells the assistant to say exactly.
SYSTEM_INSTRUCTIONS == [step1 |-> GreetingLine("SAVIRA")]

session_config ==
    [type |-> "session.update", voice |-> "alloy", instructions |-> SYSTEM_INSTRUCTIONS]

\* The greeting request: server.py builds it inline, newServer.py in
\* greeting_message().
greeting_message(v) ==
    [type |-> "response.create", modalities |-> <<"text", "audio">>,
     instructions |-> IF v = "server" THEN GreetingLine("AIRA")
                      ELSE GreetingLine("SAVIRA")]

extraction_prompt ==
    [type |-> "response.create", modalities |-> <<"text">>]

AppendCmd(payload) == [type |-> "input_audio_buffer.append", audio |-> payload]

CommitCmd == [type |-> "input_audio_buffer.commit"]

MediaMessage(sid, payload) ==
    [event |-> "media", streamSid |-> sid, media |-> [payload |-> payload]]

\* Frames the phone side delivers.  The last three miss a field the
\* receiver reads: "event", start.streamSid, media.payload.
StartFrames == {[event |-> "start", start |-> [streamSid |-> s]] : s \in StreamSids}
MediaFrames == {[event |-> "media", media |-> [payload |-> p]] : p \in Payloads}
StopFrame == [event |-> "stop"]
ConnectedFrame == [event |-> "connected"]
MalformedFrames ==
    { [protocol |-> "Call"],
      [event |-> "start", start |-> [callSid |-> "CA1"]],
      [event |-> "media", media |-> [track |-> "inbound"]] }

Frames ==
    StartFrames \cup MediaFrames \cup {StopFrame, ConnectedFrame} \cup MalformedFrames

\* Events the AI side delivers.
LogOnlyTypes ==
    { "session.created", "session.updated", "input_audio_buffer.speech_started",
      "input_audio_buffer.speech_stopped", "input_audio_buffer.committed",
      "response.created", "response.audio.done" }

AudioDelta == "response.audio.delta"
AssistantTranscript == "response.audio_transcript.done"
UserTranscript == "conversation.item.input_audio_transcription.completed"
OutputTextDelta == "response.output_text.delta"
OutputTextDone == "response.output_text.done"
ErrorEvent == "error"

TextEvents(texts) == {[type |-> OutputTextDone, text |-> x] : x \in texts}

PrintOnlyEvents ==
    {[type |-> t] : t \in LogOnlyTypes}
    \cup {[type |-> OutputTextDelta, delta |-> "chunk"]}
    \cup {[type |-> ErrorEvent, error |-> "rate_limit"]}

UntypedEvents == {[code |-> "untyped"]}

AudioDeltaEvents == {[type |-> AudioDelta, delta |-> p] : p \in Payloads}

AssistantEvents ==
    {[type |-> AssistantTranscript, transcript |-> t] : t \in Transcripts}

UserEvents == {[type |-> UserTranscript, transcript |-> t] : t \in Transcripts}

(***************************************************************************)
(* Conditions and small steps of the code.                                 *)
(***************************************************************************)
\* The mutant of KeyMissing: the credential check is gone.
KeyMissingNever(v, key) == FALSE

\* `if not OPENAI_REALTIME_API_KEY` (newServer), and also the placeholder of
\* the .env template (server).
KeyMissing(v, key) ==
    \/ key = Null
    \/ key = ""
    \/ v = "server" /\ key = "your-openai-realtime-api-key-here"

\* websocket.close has not been called.
NotClosed == [code |-> 0, reason |-> ""]

CloseReason(v) ==
    IF v = "server" THEN "OpenAI API key not configured" ELSE "Missing OpenAI API key"

\* The mutant of SidKnown: the `if stream_sid` test is gone.
SidKnownAlways(sid) == TRUE

\* `if stream_sid:` -- None and the empty string are falsy.
SidKnown(sid) == sid # Null /\ sid # ""

\* The mutant of ExtractionAllowed: the flag is not consulted.
ExtractionAllowedAlways(done) == TRUE

\* `not extraction_done` / `not extraction_requested`.
ExtractionAllowed(done) == ~done

\* The mutant of FallbackDue: the comparison is off by one.
FallbackDueAtThreshold(turns) == turns >= TurnThreshold

\* `conversation_turns > 15`.
FallbackDue(turns) == turns > TurnThreshold

\* The mutant of Send: the message jumps the queue.
SendFirst(sent, msg) == <<msg>> \o sent

\* A send that succeeds: the message follows everything sent before.
Send(sent, msg) == Append(sent, msg)

\* msg["event"], msg["start"]["streamSid"], msg["media"]["payload"] raise
\* KeyError on a frame that lacks the field.
FrameRaises(msg) ==
    \/ "event" \notin DOMAIN msg
    \/ /\ msg.event = "start"
       /\ \/ "start" \notin DOMAIN msg
          \/ "streamSid" \notin DOMAIN msg.start
    \/ /\ msg.event = "media"
       /\ \/ "media" \notin DOMAIN msg
          \/ "payload" \notin DOMAIN msg.media

\* Where a relay task goes when its loop body raises: server.py catches
\* Exception inside the loop and breaks; newServer.py has no handler (the
\* inbound task catches WebSocketDisconnect only), so the task ends raising.
OnException(v) == IF v = "server" THEN "done" ELSE "raised"

\* The mutant of AfterStop: the `break` of the stop branch is gone.
AfterStopContinue(v) == "run"

\* The stop branch ends with `break`: the task returns.
AfterStop(v) == "done"

\* The mutant of SeenByPeer: stream_sid is one module-level variable.
SeenByPeerGlobal(p, sid) == [p EXCEPT !.stream_sid = sid]

\* `nonlocal stream_sid` binds the variable of this call of media_stream:
\* another call has its own, and does not see the assignment.
SeenByPeer(p, sid) == p

\* When media_stream ends, the ASGI server closes the phone websocket.
HandlerEndsPhone(conn) == IF conn = "open" THEN "closed" ELSE conn

ExtractionRequests(sent) ==
    Cardinality({i \in 1..Len(sent) : sent[i] = extraction_prompt})

(***************************************************************************)
(* The session.                                                            *)
(***************************************************************************)
session == << stream_sid, extraction_done, conversation_turns >>
history == << phoneRecv, aiRecv, userTurns, trigger >>
extraction == << textsSeen, lastText, lastParse, candidate_data, emitted, answered >>
config == << variant, apiKey >>

\* The locals of the call of media_stream the actions act on.
Locals ==
    [ hpc |-> hpc, inPc |-> inPc, outPc |-> outPc, stream_sid |-> stream_sid,
      extraction_done |-> extraction_done, conversation_turns |-> conversation_turns,
      phoneConn |-> phoneConn, aiConn |-> aiConn, aiSent |-> aiSent,
      phoneSent |-> phoneSent, phoneClose |-> phoneClose, connectTried |-> connectTried,
      phoneRecv |-> phoneRecv, aiRecv |-> aiRecv, userTurns |-> userTurns,
      trigger |-> trigger, textsSeen |-> textsSeen, lastText |-> lastText,
      lastParse |-> lastParse, candidate_data |-> candidate_data,
      emitted |-> emitted, answered |-> answered ]

\* The locals of a call that the ASGI server has just started.
NewCall ==
    [ hpc |-> "accept", inPc |-> "idle", outPc |-> "idle", stream_sid |-> Null,
      extraction_done |-> FALSE, conversation_turns |-> 0,
      phoneConn |-> "open", aiConn |-> "none", aiSent |-> << >>,
      phoneSent |-> << >>, phoneClose |-> NotClosed, connectTried |-> FALSE,
      phoneRecv |-> << >>, aiRecv |-> << >>, userTurns |-> 0,
      trigger |-> "none", textsSeen |-> 0, lastText |-> << >>,
      lastParse |-> "none", candidate_data |-> EmptyDict,
      emitted |-> 0, answered |-> FALSE ]

Init ==
    /\ variant \in Variants
    /\ apiKey \in ApiKeys
    /\ hpc = "accept"
    /\ inPc = "idle"
    /\ outPc = "idle"
    /\ stream_sid = Null
    /\ extraction_done = FALSE
    /\ conversation_turns = 0
    /\ phoneConn = "open"
    /\ aiConn = "none"
    /\ aiSent = << >>
    /\ phoneSent = << >>
    /\ phoneClose = NotClosed
    /\ connectTried = FALSE
    /\ phoneRecv = << >>
    /\ aiRecv = << >>
    /\ userTurns = 0
    /\ trigger = "none"
    /\ textsSeen = 0
    /\ lastText = << >>
    /\ lastParse = "none"
    /\ candidate_data = EmptyDict
    /\ emitted = 0
    /\ answered = FALSE
    /\ peer = NewCall

(***************************************************************************)
(* media_stream, up to asyncio.gather.                                     *)
(***************************************************************************)
\* websocket.accept() and the credential check.
Accept ==
    /\ hpc = "accept"
    /\ IF KeyMissing(variant, apiKey)
       THEN /\ phoneClose' = [code |-> PolicyViolation, reason |-> CloseReason(variant)]
            /\ phoneConn' = "closed"
            /\ hpc' = "returned"
       ELSE /\ hpc' = "connect"
            /\ UNCHANGED << phoneClose, phoneConn >>
    /\ UNCHANGED << config, peer, inPc, outPc, session, aiConn, aiSent, phoneSent,
                    connectTried, history, extraction >>

\* websockets.connect(...).  server.py calls it inside try/except/finally;
\* newServer.py calls it bare, so a failure leaves media_stream raising.
Connect(ok) ==
    /\ hpc = "connect"
    /\ connectTried' = TRUE
    /\ IF ok
       THEN /\ aiConn' = "open"
            /\ hpc' = "configure"
            /\ UNCHANGED phoneConn
       ELSE /\ hpc' = IF variant = "server" THEN "returned" ELSE "raised"
            /\ phoneConn' = HandlerEndsPhone(phoneConn)
            /\ UNCHANGED aiConn
    /\ UNCHANGED << config, peer, inPc, outPc, session, aiSent, phoneSent, phoneClose,
                    history, extraction >>

\* A send of media_stream itself that fails: server.py's finally closes
\* openai_ws, newServer.py leaves it as it is.
SetupFails ==
    /\ hpc' = IF variant = "server" THEN "returned" ELSE "raised"
    /\ aiConn' = IF variant = "server" THEN "closed" ELSE aiConn
    /\ phoneConn' = HandlerEndsPhone(phoneConn)
    /\ UNCHANGED << aiSent, inPc, outPc >>

\* openai_ws.send(json.dumps(session_config)).
SendConfig ==
    /\ hpc = "configure"
    /\ IF aiConn = "open"
       THEN /\ aiSent' = Send(aiSent, session_config)
            /\ hpc' = "greet"
            /\ UNCHANGED << aiConn, phoneConn, inPc, outPc >>
       ELSE SetupFails
    /\ UNCHANGED << config, peer, session, phoneSent, phoneClose, connectTried,
                    history, extraction >>

\* openai_ws.send(json.dumps(greeting_message)); then asyncio.gather starts
\* both relay tasks.
SendGreeting ==
    /\ hpc = "greet"
    /\ IF aiConn = "open"
       THEN /\ aiSent' = Send(aiSent, greeting_message(variant))
            /\ hpc' = "gather"
            /\ inPc' = "run"
            /\ outPc' = "run"
            /\ UNCHANGED << aiConn, phoneConn >>
       ELSE SetupFails
    /\ UNCHANGED << config, peer, session, phoneSent, phoneClose, connectTried,
                    history, extraction >>

\* The mutant of GatherJoined: the wait ends with the first task to return.
GatherFirst(in, out) == in = "done" \/ out = "done"

\* asyncio.gather returns once every awaitable it was given has returned.
GatherJoined(in, out) == in = "done" /\ out = "done"

\* asyncio.gather(twilio_to_openai(), openai_to_twilio()) returns when both
\* tasks have returned, and raises as soon as one task raises (the other task
\* is left running).  server.py then runs its finally block.
GatherEnds ==
    /\ hpc = "gather"
    /\ IF inPc = "raised" \/ outPc = "raised"
       THEN /\ hpc' = "raised"
            /\ UNCHANGED aiConn
       ELSE /\ GatherJoined(inPc, outPc)
            /\ hpc' = "returned"
            /\ aiConn' = IF variant = "server" THEN "closed" ELSE aiConn
    /\ phoneConn' = HandlerEndsPhone(phoneConn)
    /\ UNCHANGED << config, peer, inPc, outPc, session, aiSent, phoneSent, phoneClose,
                    connectTried, history, extraction >>

(***************************************************************************)
(* twilio_to_openai: one iteration of its loop.                            *)
(***************************************************************************)
InboundReceive(msg) ==
    /\ inPc = "run"
    /\ phoneConn = "open"
    /\ IF FrameRaises(msg)
       THEN /\ inPc' = OnException(variant)
            /\ UNCHANGED << stream_sid, aiSent, phoneRecv >>
       ELSE CASE msg.event = "start" ->
                   /\ stream_sid' = msg.start.streamSid
                   /\ UNCHANGED << inPc, aiSent, phoneRecv >>
              [] msg.event = "media" ->
                   /\ Len(phoneRecv) < MaxFrames
                   /\ phoneRecv' = Append(phoneRecv, msg.media.payload)
                   /\ IF aiConn = "open"
                      THEN /\ aiSent' = Send(aiSent, AppendCmd(msg.media.payload))
                           /\ UNCHANGED inPc
                      ELSE /\ inPc' = OnException(variant)
                           /\ UNCHANGED aiSent
                   /\ UNCHANGED stream_sid
              [] msg.event = "stop" ->
                   /\ IF aiConn = "open"
                      THEN /\ aiSent' = Send(aiSent, CommitCmd)
                           /\ inPc' = AfterStop(variant)
                      ELSE /\ inPc' = OnException(variant)
                           /\ UNCHANGED aiSent
                   /\ UNCHANGED << stream_sid, phoneRecv >>
              [] OTHER ->
                   UNCHANGED << inPc, stream_sid, aiSent, phoneRecv >>
    /\ peer' = SeenByPeer(peer, stream_sid')
    /\ UNCHANGED << config, hpc, outPc, extraction_done, conversation_turns,
                    phoneConn, aiConn, phoneSent, phoneClose, connectTried,
                    aiRecv, userTurns, trigger, extraction >>

\* websocket.receive_text() raises WebSocketDisconnect: both variants catch
\* it and the task returns.
InboundDisconnected ==
    /\ inPc = "run"
    /\ phoneConn # "open"
    /\ inPc' = "done"
    /\ UNCHANGED << config, peer, hpc, outPc, session, phoneConn, aiConn, aiSent,
                    phoneSent, phoneClose, connectTried, history, extraction >>

(***************************************************************************)
(* openai_to_twilio: one iteration of its loop.  In the branches that send *)
(* on openai_ws, `closing` says that the AI side closes the connection     *)
(* right after the event was read, so that the send raises                 *)
(* ConnectionClosed.                                                       *)
(***************************************************************************)
AiAfter(closing) == IF closing THEN "remote_closed" ELSE aiConn

\* The extraction request: the flag is set, then the command is sent.
RequestExtraction(by, closing) ==
    /\ extraction_done' = TRUE
    /\ trigger' = by
    /\ IF closing
       THEN /\ outPc' = OnException(variant)
            /\ UNCHANGED aiSent
       ELSE /\ aiSent' = Send(aiSent, extraction_prompt)
            /\ UNCHANGED outPc

\* The mutant of AfterLogged: an error event ends the outbound task.
AfterLoggedErrorFatal(v, ev) ==
    IF ev.type = ErrorEvent THEN OnException(v) ELSE "run"

\* After a branch that only prints, the loop reads the next event.
AfterLogged(v, ev) == "run"

\* The mutant of SentAfterLogged: a committed audio buffer is answered with
\* a response.create.
SentAfterLoggedResponds(sent, ev) ==
    IF ev.type = "input_audio_buffer.committed"
    THEN Append(sent, [type |-> "response.create", modalities |-> <<"text", "audio">>])
    ELSE sent

\* A branch that only prints sends nothing on openai_ws.
SentAfterLogged(sent, ev) == sent

\* Event types whose branch only prints (or that have no branch at all).
OutboundPrintOnly(ev) ==
    /\ outPc = "run"
    /\ aiConn = "open"
    /\ "type" \in DOMAIN ev
    /\ ev.type \in LogOnlyTypes \cup {ErrorEvent, OutputTextDelta}
    /\ outPc' = AfterLogged(variant, ev)
    /\ aiSent' = SentAfterLogged(aiSent, ev)
    /\ UNCHANGED << config, peer, hpc, inPc, session, phoneConn, aiConn,
                    phoneSent, phoneClose, connectTried, history, extraction >>

\* An event without "type": response['type'] raises KeyError in server.py;
\* event.get("type") is None in newServer.py and no branch is taken.
OutboundUntyped(ev) ==
    /\ outPc = "run"
    /\ aiConn = "open"
    /\ "type" \notin DOMAIN ev
    /\ outPc' = IF variant = "server" THEN "done" ELSE outPc
    /\ UNCHANGED << config, peer, hpc, inPc, session, phoneConn, aiConn, aiSent, phoneSent,
                    phoneClose, connectTried, history, extraction >>

\* response.audio.delta.  A send_text to a phone that has left either raises
\* or is lost without an error, depending on what the ASGI server has
\* noticed of the disconnect: `raises` is that choice.
OutboundAudioDelta(ev, raises) ==
    /\ outPc = "run"
    /\ aiConn = "open"
    /\ "type" \in DOMAIN ev
    /\ ev.type = AudioDelta
    /\ Len(aiRecv) < MaxDeltas
    /\ aiRecv' = Append(aiRecv, [delta |-> ev.delta, sid |-> stream_sid,
                                 up |-> phoneConn = "open"])
    /\ IF SidKnown(stream_sid)
       THEN IF phoneConn = "open"
            THEN /\ phoneSent' = Send(phoneSent, MediaMessage(stream_sid, ev.delta))
                 /\ UNCHANGED outPc
            ELSE /\ outPc' = IF raises THEN OnException(variant) ELSE outPc
                 /\ UNCHANGED phoneSent
       ELSE UNCHANGED << phoneSent, outPc >>
    /\ UNCHANGED << config, peer, hpc, inPc, session, phoneConn, aiConn, aiSent, phoneClose,
                    connectTried, phoneRecv, userTurns, trigger, extraction >>

\* response.audio_transcript.done: the closing-phrase trigger.
OutboundAssistantTranscript(ev, closing) ==
    /\ outPc = "run"
    /\ aiConn = "open"
    /\ "type" \in DOMAIN ev
    /\ ev.type = AssistantTranscript
    /\ IF ExtractionAllowed(extraction_done) /\ ClosingDetected(variant, ev.transcript)
       THEN RequestExtraction("phrase", closing)
       ELSE UNCHANGED << extraction_done, trigger, aiSent, outPc >>
    /\ aiConn' = AiAfter(closing)
    /\ UNCHANGED << config, peer, hpc, inPc, stream_sid, conversation_turns, phoneConn,
                    phoneSent, phoneClose, connectTried, phoneRecv, aiRecv,
                    userTurns, extraction >>

\* The mutant of UserTextTriggers: the user's words are searched for the
\* closing phrases too.
UserTextTriggersOnPhrase(v, text) == ClosingDetected(v, text)

\* The user-transcript branch prints user_text and never searches it.
UserTextTriggers(v, text) == FALSE

\* conversation.item.input_audio_transcription.completed: server.py prints
\* the text; newServer.py counts the turn and has the turn-count trigger.
OutboundUserTranscript(ev, closing) ==
    /\ outPc = "run"
    /\ aiConn = "open"
    /\ "type" \in DOMAIN ev
    /\ ev.type = UserTranscript
    /\ userTurns < MaxTurns
    /\ userTurns' = userTurns + 1
    /\ IF variant = "server"
       THEN UNCHANGED << conversation_turns, extraction_done, trigger, aiSent, outPc >>
       ELSE /\ conversation_turns' = conversation_turns + 1
            /\ IF /\ ExtractionAllowed(extraction_done)
                  /\ \/ FallbackDue(conversation_turns')
                     \/ UserTextTriggers(variant, ev.transcript)
               THEN RequestExtraction("turns", closing)
               ELSE UNCHANGED << extraction_done, trigger, aiSent, outPc >>
    /\ aiConn' = AiAfter(closing)
    /\ UNCHANGED << config, peer, hpc, inPc, stream_sid, phoneConn, phoneSent,
                    phoneClose, connectTried, phoneRecv, aiRecv, extraction >>

\* The mutant of AfterParse: json.JSONDecodeError is not caught.
AfterParseUncaught(v, outcome) ==
    IF outcome = "decode_error" THEN OnException(v) ELSE "run"

\* Where the outbound task is after the try block of the output_text.done
\* branch: both except clauses print and the loop goes on.
AfterParse(v, outcome) == "run"

\* The mutant of FlagAfterOutput: the flag is cleared once the output came.
FlagAfterOutputReset(done) == FALSE

\* The output_text.done branch reads the flag and never assigns it.
FlagAfterOutput(done) == done

\* response.output_text.done: server.py prints the text as it came;
\* newServer.py, once extraction was requested and the text is not empty,
\* prints it and runs the parser.
OutboundTextDone(ev) ==
    /\ outPc = "run"
    /\ aiConn = "open"
    /\ "type" \in DOMAIN ev
    /\ ev.type = OutputTextDone
    /\ textsSeen < MaxTexts
    /\ textsSeen' = textsSeen + 1
    /\ lastText' = ev.text
    /\ IF variant = "server"
       THEN /\ lastParse' = "raw"
            /\ emitted' = emitted + 1
            /\ answered' = (answered \/ extraction_done)
            /\ UNCHANGED << candidate_data, outPc >>
       ELSE IF extraction_done /\ ev.text # << >>
            THEN /\ lastParse' = ParseExtraction(ev.text).outcome
                 /\ candidate_data' = ParseExtraction(ev.text).data
                 /\ emitted' = emitted + 1
                 /\ answered' = TRUE
                 /\ outPc' = AfterParse(variant, lastParse')
            ELSE UNCHANGED << lastParse, candidate_data, emitted, answered, outPc >>
    /\ extraction_done' = FlagAfterOutput(extraction_done)
    /\ UNCHANGED << config, peer, hpc, inPc, stream_sid, conversation_turns, phoneConn,
                    aiConn, aiSent, phoneSent, phoneClose, connectTried, history >>

\* openai_ws.recv() raises ConnectionClosed: server.py breaks, newServer.py
\* lets it out of the task.
OutboundConnectionClosed ==
    /\ outPc = "run"
    /\ aiConn # "open"
    /\ outPc' = OnException(variant)
    /\ UNCHANGED << config, peer, hpc, inPc, session, phoneConn, aiConn, aiSent,
                    phoneSent, phoneClose, connectTried, history, extraction >>

(***************************************************************************)
(* The two peers.                                                          *)
(***************************************************************************)
\* The caller hangs up / Twilio drops the media stream.
PhoneDisconnect ==
    /\ hpc # "accept"
    /\ phoneConn = "open"
    /\ phoneConn' = "gone"
    /\ UNCHANGED << config, peer, hpc, inPc, outPc, session, aiConn, aiSent, phoneSent,
                    phoneClose, connectTried, history, extraction >>

\* The AI service closes the realtime connection.
AIClose ==
    /\ aiConn = "open"
    /\ aiConn' = "remote_closed"
    /\ UNCHANGED << config, peer, hpc, inPc, outPc, session, phoneConn, aiSent,
                    phoneSent, phoneClose, connectTried, history, extraction >>

\* The steps the program takes on its own, without a new frame or event.
ProgramStep ==
    \/ Accept
    \/ SendConfig
    \/ SendGreeting
    \/ GatherEnds
    \/ InboundDisconnected
    \/ OutboundConnectionClosed

\* The steps common to every specification of the session.
Lifecycle ==
    \/ ProgramStep
    \/ \E ok \in BOOLEAN : Connect(ok)
    \/ \E ev \in PrintOnlyEvents : OutboundPrintOnly(ev)
    \/ \E ev \in UntypedEvents : OutboundUntyped(ev)
    \/ PhoneDisconnect
    \/ AIClose

\* The session with its audio relay: the phone side delivers every kind of
\* frame, the AI side audio deltas.
Next ==
    \/ Lifecycle
    \/ \E msg \in Frames : InboundReceive(msg)
    \/ \E ev \in AudioDeltaEvents, raises \in BOOLEAN : OutboundAudioDelta(ev, raises)

Spec == Init /\ [][Next]_vars

\* The session with its interview: the AI side delivers transcripts of both
\* speakers and extraction texts; no audio is relayed.
NextInterview ==
    \/ Lifecycle
    \/ \E msg \in Frames \ MediaFrames : InboundReceive(msg)
    \/ \E ev \in AssistantEvents, closing \in BOOLEAN :
          OutboundAssistantTranscript(ev, closing)
    \/ \E ev \in UserEvents, closing \in BOOLEAN : OutboundUserTranscript(ev, closing)
    \/ \E ev \in TextEvents(SampleTexts) : OutboundTextDone(ev)

SpecInterview == Init /\ [][NextInterview]_vars

\* The session with every sender of commands on the AI connection:
\* media_stream itself, the inbound task on media and stop frames, and the
\* outbound task on the closing phrase.
NextCommands ==
    \/ ProgramStep
    \/ \E ok \in BOOLEAN : Connect(ok)
    \/ PhoneDisconnect
    \/ AIClose
    \/ \E msg \in Frames : InboundReceive(msg)
    \/ \E ev \in AssistantEvents, closing \in BOOLEAN :
          OutboundAssistantTranscript(ev, closing)

SpecCommands == Init /\ [][NextCommands]_vars

\* The event loop turns from one call of media_stream to the other: the
\* actions act on the locals of the call it runs.
Switch ==
    /\ peer' = Locals
    /\ hpc' = peer.hpc
    /\ inPc' = peer.inPc
    /\ outPc' = peer.outPc
    /\ stream_sid' = peer.stream_sid
    /\ extraction_done' = peer.extraction_done
    /\ conversation_turns' = peer.conversation_turns
    /\ phoneConn' = peer.phoneConn
    /\ aiConn' = peer.aiConn
    /\ aiSent' = peer.aiSent
    /\ phoneSent' = peer.phoneSent
    /\ phoneClose' = peer.phoneClose
    /\ connectTried' = peer.connectTried
    /\ phoneRecv' = peer.phoneRecv
    /\ aiRecv' = peer.aiRecv
    /\ userTurns' = peer.userTurns
    /\ trigger' = peer.trigger
    /\ textsSeen' = peer.textsSeen
    /\ lastText' = peer.lastText
    /\ lastParse' = peer.lastParse
    /\ candidate_data' = peer.candidate_data
    /\ emitted' = peer.emitted
    /\ answered' = peer.answered
    /\ UNCHANGED config

\* Frames and events of the two-call specification.
CallFrames == StartFrames \cup {[protocol |-> "Call"]}
CallTranscript == <<"the", "interview", "is", "complete">>

\* Two calls served by one process: each goes through its setup, gets its
\* start frame, hears a closing phrase and a user turn, and may fail.
NextCalls ==
    \/ ProgramStep
    \/ \E ok \in BOOLEAN : Connect(ok)
    \/ AIClose
    \/ \E msg \in CallFrames : InboundReceive(msg)
    \/ OutboundAssistantTranscript(
          [type |-> AssistantTranscript, transcript |-> CallTranscript], FALSE)
    \/ /\ userTurns < MaxCallTurns
       /\ OutboundUserTranscript(
             [type |-> UserTranscript, transcript |-> << >>], FALSE)
    \/ Switch

SpecCalls == Init /\ [][NextCalls]_vars

\* The parser on every extraction text: a newServer.py session in which the
\* closing phrase was heard, the extraction request was sent and all but one
\* of the extraction texts have come (each of them prose only), receives its
\* last extraction text.
InitParse ==
    /\ variant = "newServer"
    /\ apiKey = "sk-live"
    /\ hpc = "gather"
    /\ inPc = "run"
    /\ outPc = "run"
    /\ stream_sid = Null
    /\ extraction_done = TRUE
    /\ conversation_turns = 0
    /\ phoneConn = "open"
    /\ aiConn = "open"
    /\ aiSent = << session_config, greeting_message(variant), extraction_prompt >>
    /\ phoneSent = << >>
    /\ phoneClose = NotClosed
    /\ connectTried = TRUE
    /\ phoneRecv = << >>
    /\ aiRecv = << >>
    /\ userTurns = 0
    /\ trigger = "phrase"
    /\ textsSeen = MaxTexts - 1
    /\ lastText = <<TXT>>
    /\ lastParse = "no_json"
    /\ candidate_data = EmptyDict
    /\ emitted = MaxTexts - 1
    /\ answered = TRUE
    /\ peer = NewCall

NextParse == \E ev \in TextEvents(AllTexts) : OutboundTextDone(ev)

SpecParse == InitParse /\ [][NextParse]_vars

(***************************************************************************)
(* Properties.                                                             *)
(***************************************************************************)
Ended == {"done", "raised"}

Range(f) == {f[i] : i \in DOMAIN f}

\* C1: in every reachable state at most one extraction request
\* (response.create with the extraction instructions) has been sent on the
\* AI connection, whatever transcripts were handled after the first trigger.
C1_AtMostOneExtractionRequest == ExtractionRequests(aiSent) <= 1

\* The phrase trigger fired, the request was sent, and afterwards the user
\* turn count went past the threshold of the fallback.
C1_Witness ==
    /\ variant = "newServer"
    /\ trigger = "phrase"
    /\ conversation_turns > TurnThreshold
    /\ ExtractionRequests(aiSent) = 1

\* C2: once 16 finalized user transcripts have been handled and no closing
\* phrase has triggered, the turn-count fallback has fired, and exactly one
\* extraction request has been sent (none only if the AI connection was gone
\* when the fallback sent it).
C2_FallbackAfterSixteenTurns ==
    (userTurns >= TurnThreshold + 1 /\ trigger # "phrase")
        => /\ trigger = "turns"
           /\ ExtractionRequests(aiSent) <= 1
           /\ aiConn = "open" => ExtractionRequests(aiSent) = 1

\* C3: when the phone side is gone, the inbound task has ended and the
\* program has no step left that it can take without a new AI event or phone
\* frame, the AI connection has been closed and the outbound task has ended.
C3_PhoneGoneClosesAI ==
    (phoneConn = "gone" /\ inPc \in Ended /\ ~ENABLED ProgramStep)
        => (aiConn = "closed" /\ outPc \in Ended)

\* C4: when either relay task has ended and the program has no step left
\* that it can take without a new AI event or phone frame, media_stream is no
\* longer waiting in gather and the other task is not running either.
C4_EitherTaskEndsSession ==
    ((inPc \in Ended \/ outPc \in Ended) /\ ~ENABLED ProgramStep)
        => (hpc # "gather" /\ inPc # "run" /\ outPc # "run")

\* An audio delta the outbound task read is routed when the correlation id
\* was set and the phone connection was up.
Routed(e) == e.sid # Null /\ e.up

RECURSIVE Deltas(_)
Deltas(entries) ==
    IF entries = << >> THEN << >>
    ELSE <<MediaMessage(Head(entries).sid, Head(entries).delta)>> \o Deltas(Tail(entries))

IsAppend(m) == m.type = "input_audio_buffer.append"

RECURSIVE Audio(_)
Audio(cmds) ==
    IF cmds = << >> THEN << >>
    ELSE <<Head(cmds).audio>> \o Audio(Tail(cmds))

\* C5: every media frame sent to the phone carries a stream correlation id,
\* and as long as every audio delta read so far came with the correlation id
\* unset, nothing has been sent to the phone.
C5_NoAudioBeforeStart ==
    /\ \A i \in 1..Len(phoneSent) :
          phoneSent[i].streamSid # Null /\ phoneSent[i].streamSid # ""
    /\ (\A j \in 1..Len(aiRecv) : aiRecv[j].sid = Null) => phoneSent = << >>

\* A delta came before start and was dropped; the next came after start and
\* was sent.
C5_Witness ==
    /\ Len(aiRecv) = 2
    /\ aiRecv[1].sid = Null
    /\ aiRecv[2].sid # Null
    /\ Len(phoneSent) = 1

\* C6: the input_audio_buffer.append commands sent to the AI carry, in
\* order and once each, the payloads of the media frames read from the phone
\* (all of them, or all but the last when the AI connection was found closed
\* and the inbound task ended on it); the media frames sent to the phone
\* carry, in order and once each, the audio deltas read while the correlation
\* id was set and the phone was up.
C6_RelayPreservesAudio ==
    /\ LET forwarded == Audio(SelectSeq(aiSent, IsAppend))
       IN  \/ forwarded = phoneRecv
           \/ /\ inPc \in Ended
              /\ aiConn # "open"
              /\ phoneRecv # << >>
              /\ forwarded = SubSeq(phoneRecv, 1, Len(phoneRecv) - 1)
    /\ phoneSent = Deltas(SelectSeq(aiRecv, Routed))

\* Two different payloads went through in each direction.
C6_Witness ==
    /\ Len(phoneRecv) = 2
    /\ phoneRecv[1] # phoneRecv[2]
    /\ Audio(SelectSeq(aiSent, IsAppend)) = phoneRecv
    /\ Len(phoneSent) = 2
    /\ phoneSent[1].media.payload # phoneSent[2].media.payload

\* C7: the inbound receiver leaves its loop only on a stop frame or on a
\* connection drop; a malformed frame does not end it.
C7_MalformedFrameSkipped ==
    inPc \in Ended
        => (CommitCmd \in Range(aiSent) \/ phoneConn # "open" \/ aiConn # "open")

\* An extraction text without a "{" ... "}" pair, or whose delimited part
\* does not decode.
HasPair(text) ==
    \E i \in 1..Len(text), j \in 1..Len(text) : i < j /\ text[i] = LB /\ text[j] = RB

Undecodable(text) == ~HasPair(text) \/ ~json_valid(json_match(text))

\* The step is the handling of an extraction text that arrives after the
\* extraction request.
ExtractionTextStep == extraction_done /\ textsSeen' = textsSeen + 1

NonFatal ==
    /\ lastParse' # "parsed"
    /\ candidate_data' = EmptyDict
    /\ outPc' = "run"
    /\ aiSent' = aiSent

C9_ParserDecodesOutermostBraces ==
    (variant = "newServer" /\ extraction_done /\ emitted > 0 /\ lastText # << >>) =>
        LET opens == Positions(lastText, LB)
            closes == Positions(lastText, RB)
            pair == opens # {} /\ closes # {} /\ Min(opens) < Max(closes)
            part == SubSeq(lastText, Min(opens), Max(closes))
            inner == SubSeq(part, 2, Len(part) - 1)
        IN  /\ lastParse = "no_json" <=> ~pair
            /\ lastParse = "decode_error" <=> (pair /\ ~json_valid(part))
            /\ lastParse = "parsed" <=> (pair /\ json_valid(part))
            /\ lastParse = "parsed" =>
                  \A k \in CandidateKeys :
                     IF \E i \in 1..Len(inner) : inner[i] \in Members /\ PairKey(inner[i]) = k
                     THEN /\ k \in DOMAIN candidate_data
                          /\ \E i \in 1..Len(inner) :
                                /\ inner[i] \in Members
                                /\ PairKey(inner[i]) = k
                                /\ candidate_data[k] = PairVal(inner[i])
                     ELSE k \notin DOMAIN candidate_data

\* Prose, then an object with a name: the record has the name and no email.
C9_Witness ==
    /\ lastText = <<TXT, LB, NAME, RB>>
    /\ lastParse = "parsed"
    /\ candidate_data["full_name"] = "Jane Doe"
    /\ "email" \notin DOMAIN candidate_data

\* C10: with the API key absent, once media_stream is past its check the
\* phone connection is closed with a reason, websockets.connect was never
\* called and nothing was sent to the AI service.
C10_MissingKeyRefused ==
    ((apiKey = Null \/ apiKey = "") /\ hpc # "accept") =>
        /\ hpc = "returned"
        /\ phoneConn = "closed"
        /\ phoneClose # NotClosed
        /\ phoneClose.code = PolicyViolation
        /\ phoneClose.reason # ""
        /\ ~connectTried
        /\ aiConn = "none"
        /\ aiSent = << >>
        /\ inPc = "idle"
        /\ outPc = "idle"

C10_Witness == apiKey = Null /\ hpc = "returned" /\ phoneClose # NotClosed

\* The extraction state of spec 4.3 as the code holds it: the flag, whether
\* an extraction output was printed after the request, and whether
\* media_stream has ended.
ExtractionState ==
    IF ~extraction_done THEN "ACTIVE"
    ELSE IF answered \/ hpc \in {"returned", "raised"} THEN "DONE"
    ELSE "EXTRACTION_REQUESTED"

StateRank(st) ==
    CASE st = "ACTIVE" -> 0
      [] st = "EXTRACTION_REQUESTED" -> 1
      [] st = "DONE" -> 2

IsInboundCmd(m) == m.type \in {"input_audio_buffer.append", "input_audio_buffer.commit"}

\* C11: the first command sent on the AI connection is session.update and
\* the second is the response.create greeting; every append, commit and
\* extraction request comes after these two, and neither relay task has
\* started before both were sent.
C11_ConfigThenGreetingFirst ==
    /\ Len(aiSent) >= 1 => aiSent[1] = session_config
    /\ Len(aiSent) >= 2 => aiSent[2] = greeting_message(variant)
    /\ \A i \in 1..Len(aiSent) :
          (IsInboundCmd(aiSent[i]) \/ aiSent[i] = extraction_prompt) => i > 2
    /\ (inPc # "idle" \/ outPc # "idle") => Len(aiSent) >= 2

\* After the two opening commands the session sent audio, the extraction
\* request and the commit.
C11_Witness ==
    /\ Len(aiSent) >= 5
    /\ aiSent[1] = session_config
    /\ aiSent[2] = greeting_message(variant)
    /\ \E i \in 3..Len(aiSent) : aiSent[i].type = "input_audio_buffer.append"
    /\ extraction_prompt \in Range(aiSent)
    /\ CommitCmd \in Range(aiSent)

\* C12: no step takes the extraction state backwards: from
\* EXTRACTION_REQUESTED or DONE it never returns to ACTIVE, and from DONE it
\* never returns to EXTRACTION_REQUESTED.
C12_ExtractionStateForwardOnly ==
    [][StateRank(ExtractionState') >= StateRank(ExtractionState)]_vars

\* The session went through all three states: the request was sent, an
\* output came, and both triggers were offered again afterwards.
C12_Witness ==
    /\ ExtractionState = "DONE"
    /\ answered
    /\ ExtractionRequests(aiSent) = 1
    /\ textsSeen = MaxTexts
    /\ userTurns > 0
    /\ hpc = "gather"

\* The closing phrases the statement names.
NamedPhrases ==
    { <<"interview", "is", "complete">>,
      <<"thank", "you", "for", "your", "time">>,
      <<"goodbye">> }

NamesClosing(text) == \E p \in NamedPhrases : Contains(LowerText(text), p)

\* C13: while the outbound task runs with the AI connection open and the
\* extraction state is ACTIVE, handling an assistant transcript that
\* contains one of the named closing phrases, in any letter case, sends the
\* extraction request in that very step, at every user turn count.
C13_ClosingPhraseSendsRequest ==
    (outPc = "run" /\ aiConn = "open" /\ ExtractionState = "ACTIVE") =>
        \A ev \in AssistantEvents :
            NamesClosing(ev.transcript) =>
                ~ENABLED (/\ OutboundAssistantTranscript(ev, FALSE)
                          /\ ExtractionRequests(aiSent') # ExtractionRequests(aiSent) + 1)

\* C14: a session in EXTRACTION_REQUESTED is DONE right after the first
\* response.output_text.done it handles, and media_stream never ends with
\* the session still in EXTRACTION_REQUESTED.
C14_RequestedBecomesDone ==
    /\ [][(ExtractionState = "EXTRACTION_REQUESTED" /\ textsSeen' = textsSeen + 1)
             => ExtractionState' = "DONE"]_vars
    /\ [](hpc \in {"returned", "raised"} => ExtractionState # "EXTRACTION_REQUESTED")

\* C15: the parser yields a record at most once in a session: when the
\* last extraction output already gave a record, no later step gives another.
C15_RecordAtMostOnce ==
    [][~(/\ answered
         /\ lastParse = "parsed"
         /\ emitted' = emitted + 1
         /\ lastParse' = "parsed")]_vars

Commits(sent) == Cardinality({i \in 1..Len(sent) : sent[i] = CommitCmd})

\* C16: a stop frame read while the AI connection is open sends one
\* input_audio_buffer.commit and ends the inbound loop; at most one commit
\* is ever sent, and once it was sent the inbound task has returned, reads
\* no further phone frame, and no append or commit follows it.
C16_StopCommitsAndEnds ==
    /\ Commits(aiSent) <= 1
    /\ CommitCmd \in Range(aiSent) =>
          /\ inPc = "done"
          /\ ~ENABLED (\E msg \in Frames : InboundReceive(msg))
          /\ \A i \in 1..Len(aiSent), j \in 1..Len(aiSent) :
                (aiSent[i] = CommitCmd /\ j > i) => ~IsInboundCmd(aiSent[j])
    /\ (inPc = "run" /\ phoneConn = "open" /\ aiConn = "open") =>
          /\ ENABLED InboundReceive(StopFrame)
          /\ ~ENABLED (/\ InboundReceive(StopFrame)
                       /\ ~(aiSent' = Append(aiSent, CommitCmd) /\ inPc' = "done"))

\* Two media frames were forwarded, then stop was handled: the commit is
\* the last command, the phone is still connected and the outbound task is
\* still running.
C16_Witness ==
    /\ Len(phoneRecv) = 2
    /\ Len(aiSent) = 5
    /\ aiSent[5] = CommitCmd
    /\ inPc = "done"
    /\ phoneConn = "open"
    /\ outPc = "run"

\* C17: handling a stop frame leaves the AI connection open, and after the
\* commit was sent media_stream stays in gather, without closing the AI
\* connection, for as long as the outbound task runs.
C17_StopKeepsAIOpen ==
    /\ (inPc = "run" /\ phoneConn = "open" /\ aiConn = "open") =>
          ~ENABLED (InboundReceive(StopFrame) /\ aiConn' # "open")
    /\ (CommitCmd \in Range(aiSent) /\ outPc = "run") =>
          (aiConn # "closed" /\ hpc = "gather")

\* server.py, whose finally block closes openai_ws, has handled stop: the
\* connection is open and the outbound task goes on.
C17_Witness ==
    /\ variant = "server"
    /\ CommitCmd \in Range(aiSent)
    /\ inPc = "done"
    /\ aiConn = "open"
    /\ outPc = "run"
    /\ hpc = "gather"

AnError == [type |-> ErrorEvent, error |-> "rate_limit"]

\* C18: wherever the outbound task can read an 'error' event, handling it
\* changes nothing: extraction state, turn count, correlation id, both
\* connections and everything sent stay as they are, and the outbound task
\* is running afterwards, ready for the next event.
C18_ErrorEventNonFatal ==
    (outPc = "run" /\ aiConn = "open") =>
        /\ ENABLED OutboundPrintOnly(AnError)
        /\ ~ENABLED (OutboundPrintOnly(AnError) /\ (outPc' # "run" \/ vars' # vars))

\* An error event can arrive in a session that has a correlation id, has
\* counted user turns and has requested the extraction.
C18_Witness ==
    /\ ENABLED OutboundPrintOnly(AnError)
    /\ stream_sid # Null
    /\ conversation_turns > 0
    /\ ExtractionState = "EXTRACTION_REQUESTED"
    /\ phoneConn = "open"

\* C19: the outbound task never ends with an exception that asyncio.gather
\* hands on to media_stream: neither a close of the AI connection while the
\* task waits in recv() nor a phone that left while the task sends audio
\* makes media_stream raise.
C19_NoFailureEscalates == ~(outPc = "raised" /\ hpc = "raised")

\* C20: whenever media_stream has ended after websockets.connect succeeded,
\* the AI connection is no longer open.
C20_AIConnectionClosedAtEnd ==
    (hpc \in {"returned", "raised"} /\ aiConn # "none") => aiConn # "open"

\* C21: the flag and the turn counter change only in steps of the outbound
\* task, the correlation id changes only in steps of the inbound task, and
\* once the correlation id is set no later step (no later start frame)
\* changes it.
C21_SingleWriterSidOnce ==
    [][/\ (extraction_done' # extraction_done \/ conversation_turns' # conversation_turns)
           => (inPc' = inPc /\ phoneRecv' = phoneRecv /\ stream_sid' = stream_sid)
       /\ stream_sid' # stream_sid
           => (outPc' = outPc /\ aiRecv' = aiRecv /\ userTurns' = userTurns)
       /\ stream_sid # Null => stream_sid' = stream_sid]_vars

\* C22: with two calls served at once, a step of one call leaves every
\* local of the other call as it was (correlation id, turn count, flag,
\* connections, task positions): the other call's locals change only when
\* the event loop turns to it.  Whatever became of the other call, a call
\* that waits to be accepted is accepted, and a call whose tasks run goes on
\* reading frames and events.
C22_SessionsIndependent ==
    /\ [][peer' = peer \/ (peer' = Locals /\ Locals' = peer)]_vars
    /\ [](hpc = "accept" => ENABLED Accept)
    /\ []((inPc = "run" /\ phoneConn = "open")
            => \A msg \in CallFrames : ENABLED InboundReceive(msg))
    /\ []((outPc = "run" /\ aiConn = "open")
            => ENABLED OutboundAssistantTranscript(
                  [type |-> AssistantTranscript, transcript |-> CallTranscript], FALSE))

\* One call has failed (media_stream raised); the other has its own
\* correlation id, has counted a turn and requested the extraction, and is
\* still relaying.
C22_Witness ==
    /\ peer.hpc = "raised"
    /\ peer.stream_sid = "MZ2"
    /\ peer.conversation_turns = 0
    /\ ~peer.extraction_done
    /\ hpc = "gather"
    /\ inPc = "run"
    /\ outPc = "run"
    /\ aiConn = "open"
    /\ stream_sid = "MZ1"
    /\ conversation_turns = 1
    /\ extraction_done

\* C23: as long as the closing-phrase trigger has not fired and at most 15
\* finalized user transcripts were handled, the flag is unset and no
\* extraction request has been sent.
C23_NoFallbackUpToFifteenTurns ==
    (trigger # "phrase" /\ userTurns <= TurnThreshold) =>
        /\ ~extraction_done
        /\ trigger = "none"
        /\ ExtractionRequests(aiSent) = 0

\* newServer.py has counted exactly 15 user turns, no closing phrase was
\* heard, and the outbound task is waiting for the next event.
C23_Witness ==
    /\ variant = "newServer"
    /\ conversation_turns = TurnThreshold
    /\ userTurns = TurnThreshold
    /\ ~extraction_done
    /\ outPc = "run"
    /\ aiConn = "open"

\* C24: in every state in which the session has left ACTIVE, exactly one
\* extraction request has been sent on the AI connection, also when the AI
\* connection was closing as the trigger fired.
C24_OneCommandOnceRequested ==
    ExtractionState # "ACTIVE" => ExtractionRequests(aiSent) = 1

\* C25: while the flag is unset and fewer than 15 user transcripts were
\* handled, handling a user transcript that contains a closing phrase sets
\* no flag and sends nothing: only assistant transcripts are searched.
C25_UserPhraseDoesNotTrigger ==
    (outPc = "run" /\ aiConn = "open" /\ ~extraction_done /\ userTurns < TurnThreshold) =>
        \A ev \in UserEvents :
            (NamesClosing(ev.transcript) \/ ClosingDetected(variant, ev.transcript)) =>
                /\ ENABLED OutboundUserTranscript(ev, FALSE)
                /\ ~ENABLED (/\ OutboundUserTranscript(ev, FALSE)
                             /\ (extraction_done' \/ aiSent' # aiSent))

\* newServer.py has handled user transcripts, any of them with a closing
\* phrase, and the session is still ACTIVE with nothing but the two opening
\* commands sent.
C25_Witness ==
    /\ variant = "newServer"
    /\ conversation_turns = 3
    /\ ExtractionState = "ACTIVE"
    /\ Len(aiSent) = 2
    /\ outPc = "run"
    /\ aiConn = "open"

\* C26: handling a response.output_text.done while the flag is unset, or
\* one whose text is empty, prints no extraction output, binds no record and
\* leaves the extraction state as it was.
C26_OutputWhileActiveIgnored ==
    [][(textsSeen' = textsSeen + 1 /\ (~extraction_done \/ lastText' = << >>))
          => /\ emitted' = emitted
             /\ candidate_data' = candidate_data
             /\ ExtractionState' = ExtractionState]_vars

LogOnlyEvents == PrintOnlyEvents \ {AnError}

\* C27: wherever the outbound task can read a log-only event
\* (session.created, session.updated, speech_started, speech_stopped,
\* committed, response.created, response.audio.done,
\* response.output_text.delta), handling it leaves the correlation id, the
\* turn count and the extraction state as they are, sends nothing to the AI
\* and nothing to the phone, and the task goes on.
C27_LogOnlyEventsChangeNothing ==
    (outPc = "run" /\ aiConn = "open") =>
        \A ev \in LogOnlyEvents :
            /\ ENABLED OutboundPrintOnly(ev)
            /\ ~ENABLED (/\ OutboundPrintOnly(ev)
                         /\ \/ session' # session
                            \/ ExtractionState' # ExtractionState
                            \/ aiSent' # aiSent
                            \/ phoneSent' # phoneSent
                            \/ outPc' # "run")

\* Log-only events can arrive in a session that is relaying audio in both
\* directions.
C27_Witness ==
    /\ \A ev \in LogOnlyEvents : ENABLED OutboundPrintOnly(ev)
    /\ Cardinality(LogOnlyEvents) = 8
    /\ stream_sid # Null
    /\ Len(phoneSent) >= 1
    /\ Len(aiSent) >= 3
    /\ phoneConn = "open"

\* C28: the opening utterance in the greeting request is, word for word,
\* the line that STEP 1 of the instructions sent in session.update tells the
\* assistant to say.
C28_GreetingMatchesInstructions ==
    Len(aiSent) >= 2 => aiSent[2].instructions = aiSent[1].instructions.step1

====
